---- MODULE Spec2Model ----
(***************************************************************************)
(* Food_DEL: cart, coupon, checkout and order handling of the food         *)
(* ordering application, as a state machine over the database tables, the  *)
(* browser session and the wall clock.                                     *)
(*                                                                         *)
(* Two sets of handlers exist in the repository: blueprints/customer.py    *)
(* (with coupons) and routes.py (the module app.py imports, without        *)
(* coupons).  The variable `app` fixes which of the two is registered.     *)
(*                                                                         *)
(* Text is a sequence of one-character strings.  Money is an integer       *)
(* number of mills (1/1000 of the currency unit), so that prices with more *)
(* than two decimals, which the catalog accepts, and rounding to two       *)
(* decimals are both expressible.  Arithmetic is exact decimal arithmetic; *)
(* the amounts used avoid exact rounding ties of non dyadic values, where  *)
(* binary floating point could round the other way.                        *)
(***************************************************************************)
EXTENDS Integers, Sequences, FiniteSets, TLC

\* ------------------------------------------------------------------ bounds

\* Largest cart row id handed out (the cart table's size in the model).
MaxCartId == 2
\* Largest absolute quantity a cart line may reach.
MaxQty == 2
\* Largest number of persisted orders.
MaxOrders == 2
\* Last clock second.
MaxClock == 1
\* Largest number of requests in a behaviour.
MaxRequests == 5
\* Number of menu items in the catalog of the recommendation model.
MaxItems == 9

\* ------------------------------------------------------------------ text

LowerChars == <<"a","b","c","d","e","f","g","h","i","j","k","l","m",
                "n","o","p","q","r","s","t","u","v","w","x","y","z">>
UpperChars == <<"A","B","C","D","E","F","G","H","I","J","K","L","M",
                "N","O","P","Q","R","S","T","U","V","W","X","Y","Z">>
Whitespace == {" ", "\t", "\n"}

\* str.upper(), one character
UpperChar(c) ==
    IF \E i \in 1..26 : LowerChars[i] = c
    THEN UpperChars[CHOOSE i \in 1..26 : LowerChars[i] = c]
    ELSE c

\* str.lower(), one character
LowerChar(c) ==
    IF \E i \in 1..26 : UpperChars[i] = c
    THEN LowerChars[CHOOSE i \in 1..26 : UpperChars[i] = c]
    ELSE c

upper(s) == [i \in 1..Len(s) |-> UpperChar(s[i])]
lower(s) == [i \in 1..Len(s) |-> LowerChar(s[i])]

\* str.strip(): leading and trailing whitespace removed
strip(s) ==
    LET keep == {i \in 1..Len(s) : s[i] \notin Whitespace}
    IN  IF keep = {} THEN <<>>
        ELSE LET lo == CHOOSE i \in keep : \A j \in keep : i <= j
                 hi == CHOOSE i \in keep : \A j \in keep : j <= i
             IN  SubSeq(s, lo, hi)

\* k occurs at the start of text only.
ContainsAtStart(text, k) == Len(k) <= Len(text) /\ SubSeq(text, 1, Len(k)) = k

\* `k in text` on Python strings: k occurs as a contiguous substring
Contains(text, k) ==
    \E i \in 0..(Len(text) - Len(k)) : SubSeq(text, i + 1, i + Len(k)) = k

\* str(n) for a natural number: its decimal digits
DigitChars == <<"0","1","2","3","4","5","6","7","8","9">>
RECURSIVE Digits(_)
Digits(n) ==
    IF n < 10 THEN <<DigitChars[n + 1]>>
    ELSE Append(Digits(n \div 10), DigitChars[(n % 10) + 1])

\* ------------------------------------------------------------------ users, catalog

Customers == {1, 11}
Owners == {2, 3}
Users == Customers \cup Owners
Anonymous == 0

\* User.is_customer / User.is_restaurant_owner
is_customer(u) == u \in Customers
is_restaurant_owner(u) == u \in Owners

RestaurantIds == {1, 11}
\* Restaurant.owner_id
owner_id == [r \in RestaurantIds |-> IF r = 1 THEN 2 ELSE 3]

\* The items on the menu of the checkout model.
ItemIds == 1..3
\* Every item of the catalog: the last two appear in the pricing model only.
CatalogIds == 1..5
\* MenuItem.restaurant_id
restaurant_id == [i \in CatalogIds |-> IF i \in {3, 5} THEN 11 ELSE 1]
\* MenuItem.category
category ==
    [i \in CatalogIds |->
        CASE i = 1 -> <<"P","i","z","z","a">>
          [] i = 2 -> <<"D","r","i","n","k","s">>
          [] i = 3 -> <<"M","a","i","n">>
          [] i = 4 -> <<"S","a","l","a","d","s">>
          [] i = 5 -> <<"S","U","S","H","I">>]
\* MenuItem.name
name ==
    [i \in CatalogIds |->
        CASE i = 1 -> <<"M","a","r","g","h","e","r","i","t","a">>
          [] i = 2 -> <<"L","a","s","s","i">>
          [] i = 3 -> <<"V","e","g"," ","B","i","r","y","a","n","i">>
          [] i = 4 -> <<"Q","u","i","n","o","a"," ","B","o","w","l">>
          [] i = 5 -> <<"M","a","k","i">>]

\* Listed prices in mills at start-up: 169.00, 40.00, 220.00, 250.00, 99.99
InitialPrice ==
    [i \in CatalogIds |->
        CASE i = 1 -> 169000 [] i = 2 -> 40000 [] i = 3 -> 220000
          [] i = 4 -> 250000 [] i = 5 -> 99990]

\* ------------------------------------------------------------------ coupons

PIZZA50 == <<"P","I","Z","Z","A","5","0">>
BIRYANI30 == <<"B","I","R","Y","A","N","I","3","0">>
HEALTHY40 == <<"H","E","A","L","T","H","Y","4","0">>
SUSHI25 == <<"S","U","S","H","I","2","5">>

CouponCodes == {PIZZA50, BIRYANI30, HEALTHY40, SUSHI25}

\* _COUPON_MAP: code -> (discount in percent, keywords)
_COUPON_MAP ==
    [c \in CouponCodes |->
        CASE c = PIZZA50 -> [pct |-> 50, keywords |-> {<<"p","i","z","z","a">>}]
          [] c = BIRYANI30 -> [pct |-> 30, keywords |-> {<<"b","i","r","y","a","n","i">>}]
          [] c = HEALTHY40 -> [pct |-> 40, keywords |-> {<<"b","o","w","l">>,
                                                         <<"h","e","a","l","t","h","y">>}]
          [] c = SUSHI25 -> [pct |-> 25, keywords |-> {<<"s","u","s","h","i">>}]]

\* f"{menu_item.category} {menu_item.name}".lower()
ItemText == [i \in CatalogIds |-> lower(category[i] \o <<" ">> \o name[i])]

_is_item_eligible_for_coupon(menu_item, coupon) ==
    IF coupon = <<>> \/ coupon \notin CouponCodes
    THEN FALSE
    ELSE \E k \in _COUPON_MAP[coupon].keywords : Contains(ItemText[menu_item], k)

\* round(x, 2) of the amount n/d mills, in mills: nearest cent, ties to even
RoundHalfEven(n, d) ==
    LET q == n \div d
        r == n % d
    IN  IF 2 * r < d THEN q
        ELSE IF 2 * r > d THEN q + 1
        ELSE IF q % 2 = 0 THEN q ELSE q + 1

round2(n, d) == 10 * RoundHalfEven(n, 10 * d)

\* The discount of a known coupon, whatever the item.
DiscountedWhateverItem(price, menu_item, coupon) ==
    IF coupon \in CouponCodes
    THEN round2(price * (100 - _COUPON_MAP[coupon].pct), 100)
    ELSE price

\* _discounted_unit_price(menu_item, coupon), given the item's listed price
_discounted_unit_price(price, menu_item, coupon) ==
    IF coupon \in CouponCodes /\ _is_item_eligible_for_coupon(menu_item, coupon)
    THEN round2(price * (100 - _COUPON_MAP[coupon].pct), 100)
    ELSE price

\* ------------------------------------------------------------------ state

VARIABLES
    app,          \* which handlers app.py registered: "blueprints" or "routes"
    session,      \* the browser session: logged-in user and session['coupon_code']
    now,          \* wall clock, in seconds
    menu,         \* menu_items table: price, is_available, order_count per item
    cart,         \* cart table: rows id, customer_id, menu_item_id, quantity
    orders,       \* orders table
    order_items,  \* order_items table
    resp,         \* the last request and its response
    requests,     \* the number of requests handled so far
    preferences,  \* user_preferences table
    recommendations,  \* the recommendations the dashboard rendered last
    inflight      \* per server thread: the request it is handling and what it has read

vars == <<app, session, now, menu, cart, orders, order_items, resp, requests,
          preferences, recommendations, inflight>>

\* The server's threads; a thread between two requests.
Threads == {1, 2}
Idle == [op |-> "idle"]

\* The tables a database transaction reads and writes.
DB == [menu |-> menu, cart |-> cart, orders |-> orders, order_items |-> order_items]

\* INTEGER PRIMARY KEY of SQLite: one more than the largest id in the table
NextId(rows) ==
    IF rows = {} THEN 1
    ELSE (CHOOSE i \in {x.id : x \in rows} : \A x \in rows : x.id <= i) + 1

\* query.all(): the rows of a set in primary-key order
RECURSIVE RowSeq(_)
RowSeq(rows) ==
    IF rows = {} THEN <<>>
    ELSE LET first == CHOOSE x \in rows : \A y \in rows : x.id <= y.id
         IN  <<first>> \o RowSeq(rows \ {first})

\* Cart.query.filter_by(customer_id=...).all()
CartItems(d, customer) == RowSeq({c \in d.cart : c.customer_id = customer})

RECURSIVE SumSeq(_)
SumSeq(s) == IF s = <<>> THEN 0 ELSE Head(s) + SumSeq(Tail(s))

\* _get_active_coupon()
_get_active_coupon == strip(upper(session.coupon_code))

\* A rollback that keeps what the transaction had already flushed.
RollbackKeepsFlushed(before, pending) == pending

\* db.session.rollback(): every pending change of the transaction is discarded
Rollback(before, pending) == before

NoQuantity == <<>>
NoCode == <<"<", "n", "u", "l", "l", ">">>

Response(op, success, message, id, quantity, code, numbers) ==
    [op |-> op, success |-> success, message |-> message, id |-> id,
     quantity |-> quantity, code |-> code, numbers |-> numbers]

NoResponse == Response("none", TRUE, "", 0, NoQuantity, NoCode, <<>>)

\* A failure answered before, or regardless of, the request's arguments.
Failure(op, message) == Response(op, FALSE, message, 0, NoQuantity, NoCode, <<>>)

InitOf(registered) ==
    /\ app = registered
    /\ session = [user_id |-> Anonymous, coupon_code |-> <<>>]
    /\ now = 0
    /\ menu = [i \in ItemIds |->
                 [price |-> InitialPrice[i], is_available |-> TRUE, order_count |-> 0]]
    /\ cart = {}
    /\ orders = {}
    /\ order_items = {}
    /\ resp = NoResponse
    /\ requests = 0
    /\ preferences = {}
    /\ recommendations = <<>>
    /\ inflight = [t \in Threads |-> Idle]

\* One more request is handled.
Counted ==
    /\ requests < MaxRequests
    /\ requests' = requests + 1

\* ------------------------------------------------------------------ auth

\* login: a user with valid credentials becomes the session's user
login(u) ==
    /\ Counted
    /\ session' = [session EXCEPT !.user_id = u]
    /\ resp' = Response("login", TRUE, "", u, NoQuantity, NoCode, <<>>)
    /\ UNCHANGED <<inflight, preferences, recommendations, app, now, menu, cart, orders, order_items>>

\* logout: logout_user() drops the user from the session, nothing else
logout ==
    /\ Counted
    /\ session.user_id # Anonymous
    /\ session' = [session EXCEPT !.user_id = Anonymous]
    /\ resp' = Response("logout", TRUE, "", 0, NoQuantity, NoCode, <<>>)
    /\ UNCHANGED <<inflight, preferences, recommendations, app, now, menu, cart, orders, order_items>>

\* The clock advances by one second.
Tick ==
    /\ now < MaxClock
    /\ now' = now + 1
    /\ UNCHANGED <<inflight, preferences, recommendations, app, session, menu, cart, orders, order_items, resp, requests>>

\* What @login_required and the handler's role check answer, "" when both pass.
Denied(customer_role) ==
    IF session.user_id = Anonymous THEN "Please log in to access this page."
    ELSE IF customer_role /\ ~is_customer(session.user_id) THEN "Access denied"
    ELSE IF ~customer_role /\ ~is_restaurant_owner(session.user_id) THEN "Access denied"
    ELSE ""

\* ------------------------------------------------------------------ cart

\* The client's quantity values: the key left out, or an integer.
AddQuantities == {NoQuantity, <<0>>, <<-1>>}
UpdateQuantities == {NoQuantity, <<0>>, <<-1>>, <<2>>}
\* Ids a client may send: 0 stands for a missing id.
RequestItemIds == {0} \cup ItemIds
RequestCartIds == 0..MaxCartId

\* add_to_cart's database work: the line found is increased, or a line is inserted
add_to_cart_db(d, customer, menu_item_id, quantity) ==
    LET existing == {c \in d.cart : c.customer_id = customer /\ c.menu_item_id = menu_item_id}
    IN  IF existing # {}
        THEN LET e == CHOOSE c \in existing : \A o \in existing : c.id <= o.id
             IN  [d EXCEPT !.cart = (d.cart \ {e}) \cup {[e EXCEPT !.quantity = e.quantity + quantity]}]
        ELSE [d EXCEPT !.cart = d.cart \cup
                 {[id |-> NextId(d.cart), customer_id |-> customer,
                   menu_item_id |-> menu_item_id, quantity |-> quantity]}]

Commit(d) ==
    /\ menu' = d.menu
    /\ cart' = d.cart
    /\ orders' = d.orders
    /\ order_items' = d.order_items

add_to_cart(menu_item_id, q, dbfail) ==
    LET op == "add_to_cart"
        \* request.json.get('quantity', 1)
        quantity == IF q = NoQuantity THEN 1 ELSE q[1]
        R(ok, msg) == Response(op, ok, msg, menu_item_id, q, NoCode, <<>>)
        after == add_to_cart_db(DB, session.user_id, menu_item_id, quantity)
    IN
    /\ Counted
    /\ UNCHANGED <<inflight, preferences, recommendations, app, session, now>>
    /\ IF Denied(TRUE) # ""
       THEN resp' = Failure(op, Denied(TRUE)) /\ Commit(DB)
       ELSE IF menu_item_id = 0
       THEN resp' = R(FALSE, "Invalid menu item") /\ Commit(DB)
       ELSE IF ~menu[menu_item_id].is_available
       THEN resp' = R(FALSE, "Item is not available") /\ Commit(DB)
       ELSE /\ \A c \in after.cart : c.id <= MaxCartId /\ c.quantity \in (-MaxQty)..MaxQty
            /\ IF dbfail
               THEN resp' = Failure(op, "An error occurred") /\ Commit(Rollback(DB, after))
               ELSE resp' = R(TRUE, "Item added to cart successfully") /\ Commit(after)

\* remove_from_cart's database work
remove_from_cart_db(d, cart_item) == [d EXCEPT !.cart = d.cart \ {cart_item}]

remove_from_cart(cart_item_id, dbfail) ==
    LET op == "remove_from_cart"
        R(ok, msg) == Response(op, ok, msg, cart_item_id, NoQuantity, NoCode, <<>>)
        found == {c \in cart : c.id = cart_item_id /\ c.customer_id = session.user_id}
    IN
    /\ Counted
    /\ UNCHANGED <<inflight, preferences, recommendations, app, session, now>>
    /\ IF Denied(TRUE) # ""
       THEN resp' = Failure(op, Denied(TRUE)) /\ Commit(DB)
       ELSE IF cart_item_id = 0
       THEN resp' = R(FALSE, "Invalid cart item") /\ Commit(DB)
       ELSE IF found = {}
       THEN resp' = R(FALSE, "Item not found in cart") /\ Commit(DB)
       ELSE LET after == remove_from_cart_db(DB, CHOOSE c \in found : TRUE)
            IN  IF dbfail
                THEN resp' = Failure(op, "An error occurred") /\ Commit(Rollback(DB, after))
                ELSE resp' = R(TRUE, "Item removed from cart") /\ Commit(after)

\* The test with `int(quantity) < 0` and without `not quantity`.
InvalidQuantityUpdateBelowZero(cart_item_id, q) ==
    cart_item_id = 0 \/ q = NoQuantity \/ q[1] < 0

\* `not cart_item_id or not quantity or int(quantity) < 1`
InvalidQuantityUpdate(cart_item_id, q) ==
    cart_item_id = 0 \/ q = NoQuantity \/ q[1] = 0 \/ q[1] < 1

\* update_cart_quantity's database work: cart_item.quantity = int(quantity)
update_cart_quantity_db(d, cart_item, quantity) ==
    [d EXCEPT !.cart = (d.cart \ {cart_item}) \cup {[cart_item EXCEPT !.quantity = quantity]}]

update_cart_quantity(cart_item_id, q, dbfail) ==
    LET op == "update_cart_quantity"
        R(ok, msg) == Response(op, ok, msg, cart_item_id, q, NoCode, <<>>)
        found == {c \in cart : c.id = cart_item_id /\ c.customer_id = session.user_id}
    IN
    /\ Counted
    /\ UNCHANGED <<inflight, preferences, recommendations, app, session, now>>
    /\ IF Denied(TRUE) # ""
       THEN resp' = Failure(op, Denied(TRUE)) /\ Commit(DB)
       ELSE IF InvalidQuantityUpdate(cart_item_id, q)
       THEN resp' = R(FALSE, "Invalid data") /\ Commit(DB)
       ELSE IF found = {}
       THEN resp' = R(FALSE, "Cart item not found") /\ Commit(DB)
       ELSE LET after == update_cart_quantity_db(DB, CHOOSE c \in found : TRUE, q[1])
            IN  /\ q[1] <= MaxQty
                /\ IF dbfail
                   THEN resp' = Failure(op, "An error occurred") /\ Commit(Rollback(DB, after))
                   ELSE resp' = R(TRUE, "Cart updated") /\ Commit(after)

\* ------------------------------------------------------------------ coupon

\* The codes a client submits: none, empty, blank, known (any case), unknown.
CodeInputs ==
    {NoCode, <<>>, <<" ">>, <<"p","i","z","z","a","5","0">>,
     <<" ","B","I","R","Y","A","N","I","3","0">>, <<"F","R","E","E">>}

\* (request.json.get('code') or '').upper().strip()
NormalizeCode(raw) == IF raw = NoCode THEN <<>> ELSE strip(upper(raw))

\* The test without `code and`: the empty code is rejected too.
IsRejectedCodeAlsoEmpty(code) == code \notin CouponCodes

\* A test that also rejects the code that is active already.
IsRejectedCodeIfActive(code) ==
    code # <<>> /\ (code \notin CouponCodes \/ code = session.coupon_code)

\* `code and code not in _COUPON_MAP`
IsRejectedCode(code) == code # <<>> /\ code \notin CouponCodes

\* Totals with the coupon's discount taken off the whole cart once a line is eligible.
CartTotalsWholeCart(d, customer, coupon) ==
    LET items == CartItems(d, customer)
        subtotal == SumSeq([k \in 1..Len(items) |->
                        items[k].quantity * d.menu[items[k].menu_item_id].price])
        any == \E k \in 1..Len(items) :
                    _is_item_eligible_for_coupon(items[k].menu_item_id, coupon)
        discounted_total ==
            IF any THEN round2(subtotal * (100 - _COUPON_MAP[coupon].pct), 100) ELSE subtotal
    IN  [subtotal |-> subtotal, discount |-> round2(subtotal - discounted_total, 1),
         total |-> discounted_total]

\* The totals the cart view, apply_coupon, remove_from_cart and update_cart_quantity
\* compute: subtotal, discounted total, and their difference rounded to two decimals.
CartTotals(d, customer, coupon) ==
    LET items == CartItems(d, customer)
        subtotal == SumSeq([k \in 1..Len(items) |->
                        items[k].quantity * d.menu[items[k].menu_item_id].price])
        discounted_total ==
            SumSeq([k \in 1..Len(items) |->
                items[k].quantity * _discounted_unit_price(d.menu[items[k].menu_item_id].price,
                                                           items[k].menu_item_id, coupon)])
    IN  [subtotal |-> subtotal, discount |-> round2(subtotal - discounted_total, 1),
         total |-> discounted_total]

apply_coupon(raw) ==
    LET op == "apply_coupon"
        R(ok, msg) == Response(op, ok, msg, 0, NoQuantity, raw, <<>>)
        code == NormalizeCode(raw)
    IN
    /\ Counted
    /\ app = "blueprints"
    /\ UNCHANGED <<inflight, preferences, recommendations, app, now, menu, cart, orders, order_items>>
    /\ IF Denied(TRUE) # ""
       THEN resp' = Failure(op, Denied(TRUE)) /\ UNCHANGED session
       ELSE IF IsRejectedCode(code)
       THEN resp' = R(FALSE, "Invalid coupon code") /\ UNCHANGED session
       ELSE /\ session' = [session EXCEPT !.coupon_code = code]
            /\ resp' = R(TRUE, IF code # <<>> THEN "Coupon applied" ELSE "Coupon cleared")

\* ------------------------------------------------------------------ checkout

\* datetime.now().strftime('%Y%m%d%H%M%S'): fourteen digits, the seconds last
strftime(t) ==
    <<"2","0","2","5","0","1","0","1","1","2","0","0">>
        \o (IF t < 10 THEN <<"0">> ELSE <<>>) \o Digits(t)

\* f"ORD{timestamp}{current_user.id}{restaurant_id}"
order_number(t, customer, r) ==
    <<"O","R","D">> \o strftime(t) \o Digits(customer) \o Digits(r)

\* restaurant_items' keys: the restaurants of the cart lines, in order of first appearance
RECURSIVE RestaurantKeys(_, _)
RestaurantKeys(items, seen) ==
    IF items = <<>> THEN <<>>
    ELSE LET r == restaurant_id[Head(items).menu_item_id]
         IN  IF r \in seen THEN RestaurantKeys(Tail(items), seen)
             ELSE <<r>> \o RestaurantKeys(Tail(items), seen \cup {r})

\* Every cart line, whatever its restaurant.
RestaurantItemsUngrouped(items, r) == items

\* restaurant_items[r]: the cart lines of restaurant r, in cart order
RestaurantItems(items, r) ==
    SelectSeq(items, LAMBDA c : restaurant_id[c.menu_item_id] = r)

\* The listed price, whatever the coupon.
LineUnitPriceListed(d, c, coupon, impl) == d.menu[c.menu_item_id].price

\* The unit price place_order freezes into a line: discounted in blueprints/customer.py,
\* listed in routes.py.
LineUnitPrice(d, c, coupon, impl) ==
    IF impl = "blueprints"
    THEN _discounted_unit_price(d.menu[c.menu_item_id].price, c.menu_item_id, coupon)
    ELSE d.menu[c.menu_item_id].price

\* The order's total_amount: rounded to two decimals in blueprints/customer.py,
\* the plain sum in routes.py.
OrderTotal(d, items, coupon, impl) ==
    LET sum == SumSeq([k \in 1..Len(items) |->
                         items[k].quantity * LineUnitPrice(d, items[k], coupon, impl)])
    IN  IF impl = "blueprints" THEN round2(sum, 1) ELSE sum

\* One iteration of place_order's loop: the order, its lines, the items' order_count.
AddOrder(d, customer, coupon, r, t, impl) ==
    LET items == RestaurantItems(CartItems(d, customer), r)
        oid == NextId(d.orders)
        first == NextId(d.order_items)
        order == [id |-> oid, order_number |-> order_number(t, customer, r),
                  status |-> "pending", total_amount |-> OrderTotal(d, items, coupon, impl),
                  customer_id |-> customer, restaurant_id |-> r]
        lines == {[id |-> first + k - 1, quantity |-> items[k].quantity,
                   price |-> LineUnitPrice(d, items[k], coupon, impl),
                   order_id |-> oid, menu_item_id |-> items[k].menu_item_id]
                  : k \in 1..Len(items)}
        ordered(i) == SumSeq([k \in 1..Len(items) |->
                        IF items[k].menu_item_id = i THEN items[k].quantity ELSE 0])
    IN  [d EXCEPT !.orders = @ \cup {order},
                  !.order_items = @ \cup lines,
                  !.menu = [i \in ItemIds |-> [@[i] EXCEPT !.order_count = @ + ordered(i)]]]

\* place_order's loop over the restaurants.  The flush of an order raises when the
\* database fails there (fail = 1 for the first restaurant left) or when the order
\* number is already taken (orders.order_number is unique).
RECURSIVE PlaceOrders(_, _, _, _, _, _, _)
PlaceOrders(d, customer, coupon, keys, t, impl, fail) ==
    IF keys = <<>> THEN [db |-> d, ok |-> TRUE, numbers |-> <<>>]
    ELSE LET number == order_number(t, customer, Head(keys))
         IN  IF fail = 1 \/ number \in {o.order_number : o \in d.orders}
             THEN [db |-> d, ok |-> FALSE, numbers |-> <<number>>]
             ELSE LET rest == PlaceOrders(AddOrder(d, customer, coupon, Head(keys), t, impl),
                                          customer, coupon, Tail(keys), t, impl,
                                          IF fail = 0 THEN 0 ELSE fail - 1)
                  IN  [rest EXCEPT !.numbers = <<number>> \o @]

\* A delete that removes nothing.
ClearCartNothing(d, customer) == d

\* Cart.query.filter_by(customer_id=current_user.id).delete()
ClearCart(d, customer) == [d EXCEPT !.cart = {c \in @ : c.customer_id # customer}]

\* A test that never finds the cart empty.
CartIsEmptyNever(items) == FALSE

\* `if not cart_items`
CartIsEmpty(items) == items = <<>>

\* place_order of either module.  fail = 0: the database works; 1..n: the flush of the
\* n-th order raises; n+1: the cart's delete raises; n+2: the commit raises.
PlaceOrder(impl, fail) ==
    LET op == "place_order"
        customer == session.user_id
        R(ok, msg, numbers) == Response(op, ok, msg, fail, NoQuantity, NoCode, numbers)
        items == CartItems(DB, customer)
        keys == RestaurantKeys(items, {})
        n == Len(keys)
        coupon == IF impl = "blueprints" THEN _get_active_coupon ELSE <<>>
        run == PlaceOrders(DB, customer, coupon, keys, now, impl, IF fail \in 1..n THEN fail ELSE 0)
        cleared == ClearCart(run.db, customer)
        error == "An error occurred while placing order"
        \* session['coupon_code'] = '' (blueprints/customer.py only)
        coupon_cleared ==
            IF impl = "blueprints" THEN [session EXCEPT !.coupon_code = <<>>] ELSE session
    IN
    /\ Counted
    /\ app = impl
    /\ UNCHANGED <<inflight, preferences, recommendations, app, now>>
    /\ IF Denied(TRUE) # ""
       THEN resp' = Failure(op, Denied(TRUE)) /\ Commit(DB) /\ UNCHANGED session
       ELSE IF CartIsEmpty(items)
       THEN resp' = Failure(op, "Cart is empty") /\ Commit(DB) /\ UNCHANGED session
       ELSE /\ fail <= n + 2
            /\ Cardinality(orders) + n <= MaxOrders
            /\ IF ~run.ok \/ fail = n + 1
               THEN /\ resp' = R(FALSE, error, run.numbers)
                    /\ Commit(Rollback(DB, run.db))
                    /\ UNCHANGED session
               ELSE IF fail = n + 2
               THEN /\ resp' = R(FALSE, error, run.numbers)
                    /\ Commit(Rollback(DB, cleared))
                    /\ session' = coupon_cleared
               ELSE /\ resp' = R(TRUE, "Order placed successfully!", run.numbers)
                    /\ Commit(cleared)
                    /\ session' = coupon_cleared

\* place_order of blueprints/customer.py
place_order(fail) == PlaceOrder("blueprints", fail)

\* place_order of routes.py
routes_place_order(fail) == PlaceOrder("routes", fail)

\* ------------------------------------------------------------------ restaurant owner

\* A listed price with more than two decimals: 10.004
OddPrice == 10004
\* The request bodies of update_menu_item: the fields sent are the function's domain.
UpdateData ==
    {[f \in {"price"} |-> OddPrice]}
        \cup {[f \in {"is_available"} |-> b] : b \in BOOLEAN}

\* setattr(item, field, data[field]) for every updatable field in data
update_menu_item_db(d, item_id, data) ==
    [d EXCEPT !.menu[item_id] =
        [@ EXCEPT !.price = IF "price" \in DOMAIN data THEN data["price"] ELSE @,
                  !.is_available = IF "is_available" \in DOMAIN data
                                   THEN data["is_available"] ELSE @]]

update_menu_item(item_id, data, dbfail) ==
    LET op == "update_menu_item"
        R(ok, msg) == Response(op, ok, msg, item_id, NoQuantity, NoCode, <<>>)
    IN
    /\ Counted
    /\ UNCHANGED <<inflight, preferences, recommendations, app, session, now>>
    /\ IF Denied(FALSE) # ""
       THEN resp' = Failure(op, Denied(FALSE)) /\ Commit(DB)
       ELSE IF item_id = 0
       THEN resp' = R(FALSE, "Invalid menu item") /\ Commit(DB)
       ELSE IF owner_id[restaurant_id[item_id]] # session.user_id
       THEN resp' = R(FALSE, "Menu item not found") /\ Commit(DB)
       ELSE LET after == update_menu_item_db(DB, item_id, data)
            IN  IF dbfail
                THEN resp' = Failure(op, "An error occurred") /\ Commit(Rollback(DB, after))
                ELSE resp' = R(TRUE, "Menu item updated") /\ Commit(after)

\* The status values a client submits.
StatusInputs == {"", "confirmed", "lost"}

\* An assignment that leaves the status as it was.
KeepOrderStatus(d, order, status) == d

\* order.status = status
update_order_status_db(d, order, status) ==
    [d EXCEPT !.orders = (@ \ {order}) \cup {[order EXCEPT !.status = status]}]

update_order_status(order_id, status, dbfail) ==
    LET op == "update_order_status"
        \* the response, with the status the request asked for
        R(ok, msg) == Response(op, ok, msg, order_id, NoQuantity, NoCode, <<>>)
                          @@ [status |-> status]
        found == {o \in orders : o.id = order_id /\ owner_id[o.restaurant_id] = session.user_id}
    IN
    /\ Counted
    /\ UNCHANGED <<inflight, preferences, recommendations, app, session, now>>
    /\ IF Denied(FALSE) # ""
       THEN resp' = Failure(op, Denied(FALSE)) /\ Commit(DB)
       ELSE IF order_id = 0 \/ status = ""
       THEN resp' = R(FALSE, "Invalid data") /\ Commit(DB)
       ELSE IF found = {}
       THEN resp' = R(FALSE, "Order not found") /\ Commit(DB)
       ELSE LET after == update_order_status_db(DB, CHOOSE o \in found : TRUE, status)
            IN  IF dbfail
                THEN resp' = Failure(op, "An error occurred") /\ Commit(Rollback(DB, after))
                ELSE resp' = R(TRUE, "Order status updated successfully") /\ Commit(after)

\* ------------------------------------------------------------------ specification

\* Where the database may fail during a checkout: nowhere (0), at an order's flush,
\* at the cart's delete, at the commit.
FailPoints == 0..(Cardinality(RestaurantIds) + 2)

\* The clients that log in.
LoginUsers == Users
\* The ids update_menu_item is called with.
UpdateItemIds == {0, 1, 3}

\* The application with the handlers of blueprints/.
Init == InitOf("blueprints")
Next ==
    \/ Tick
    \/ \E u \in LoginUsers : login(u)
    \/ logout
    \/ \E i \in RequestItemIds, q \in AddQuantities, f \in BOOLEAN : add_to_cart(i, q, f)
    \/ \E c \in RequestCartIds, f \in BOOLEAN : remove_from_cart(c, f)
    \/ \E c \in RequestCartIds, q \in UpdateQuantities, f \in BOOLEAN :
            update_cart_quantity(c, q, f)
    \/ \E raw \in CodeInputs : apply_coupon(raw)
    \/ \E f \in FailPoints : place_order(f)
    \/ \E i \in UpdateItemIds, data \in UpdateData, f \in BOOLEAN : update_menu_item(i, data, f)
    \/ \E o \in 0..MaxOrders, st \in StatusInputs, f \in BOOLEAN : update_order_status(o, st, f)
Spec == Init /\ [][Next]_vars

\* Either application: the handlers of blueprints/, or those of routes.py, which
\* app.py imports.
InitAll == InitOf("blueprints") \/ InitOf("routes")
NextAll ==
    \/ Next
    \/ \E f \in FailPoints : routes_place_order(f)
SpecAll == InitAll /\ [][NextAll]_vars

\* ------------------------------------------------------------------ pricing model

\* cart: the cart page, which renders the totals of the customer's cart
cart_view ==
    /\ Counted
    /\ resp' = IF session.user_id = Anonymous
               THEN Failure("cart", "Please log in to access this page.")
               ELSE IF ~is_customer(session.user_id)
               THEN Failure("cart", "Access denied. Customer access required.")
               ELSE Response("cart", TRUE, "", 0, NoQuantity, NoCode, <<>>)
    /\ UNCHANGED <<inflight, preferences, recommendations, app, session, now, menu, cart, orders, order_items>>

\* The codes submitted in the pricing model: those of CodeInputs and two more known ones.
PricingCodeInputs ==
    CodeInputs \cup {<<"h","e","a","l","t","h","y","4","0">>, SUSHI25}

\* The listed prices the pricing model starts from: those at start-up, or the pizza at
\* 10.004 after its owner's update_menu_item.
PricingPrices ==
    {InitialPrice, [InitialPrice EXCEPT ![1] = OddPrice]}

\* A customer has logged in and looks at the whole catalog; the cart is empty.
InitPricing ==
    /\ app = "blueprints"
    /\ session = [user_id |-> 1, coupon_code |-> <<>>]
    /\ now = 0
    /\ \E prices \in PricingPrices :
            menu = [i \in CatalogIds |->
                      [price |-> prices[i], is_available |-> TRUE, order_count |-> 0]]
    /\ cart = {}
    /\ orders = {}
    /\ order_items = {}
    /\ resp = NoResponse
    /\ requests = 0
    /\ preferences = {}
    /\ recommendations = <<>>
    /\ inflight = [t \in Threads |-> Idle]

\* The cart endpoints.
NextPricing ==
    \/ \E raw \in PricingCodeInputs : apply_coupon(raw)
    \/ \E i \in CatalogIds, q \in AddQuantities : add_to_cart(i, q, FALSE)
    \/ \E c \in RequestCartIds, q \in UpdateQuantities : update_cart_quantity(c, q, FALSE)
    \/ \E c \in RequestCartIds : remove_from_cart(c, FALSE)
    \/ cart_view
SpecPricing == InitPricing /\ [][NextPricing]_vars

\* ------------------------------------------------------------------ recommendations

\* limit(8), `len(filtered_popular) < 8`, combined[:8]
RecommendationLimit == 8

\* UserPreference.query.filter_by(user_id=customer_id).all()
PreferencesOf(customer_id) == {p \in preferences : p.user_id = customer_id}

\* dietary_values
dietary_values(customer_id) ==
    {p.preference_value :
        p \in {x \in PreferencesOf(customer_id) : x.preference_type = "dietary_restriction"}}

\* favorite_cuisines
favorite_cuisines(customer_id) ==
    {p.preference_value :
        p \in {x \in PreferencesOf(customer_id) : x.preference_type = "favorite_cuisine"}}

\* The filters require_vegan, require_veg and require_gluten_free add to a query
SatisfiesDietary(i, dietary) ==
    /\ ("vegan" \in dietary => menu[i].is_vegan)
    /\ ("vegetarian" \in dietary => menu[i].is_vegetarian)
    /\ ("gluten_free" \in dietary => menu[i].is_gluten_free)

\* base_query: available, of a favorite cuisine if there is one, within the restrictions
PrimaryCandidates(customer_id) ==
    {i \in DOMAIN menu :
        /\ menu[i].is_available
        /\ (favorite_cuisines(customer_id) # {}
                => menu[i].cuisine_type \in favorite_cuisines(customer_id))
        /\ SatisfiesDietary(i, dietary_values(customer_id))}

\* A backfill query without the dietary filters.
BackfillCandidatesUnfiltered(customer_id) ==
    {i \in DOMAIN menu : menu[i].is_available}

\* backfill_query: available, within the restrictions
BackfillCandidates(customer_id) ==
    {i \in DOMAIN menu :
        /\ menu[i].is_available
        /\ SatisfiesDietary(i, dietary_values(customer_id))}

\* Item i comes before item j under ORDER BY order_count DESC; the database orders
\* items of equal order_count as it likes, here by ascending or by descending id.
Before(i, j, tie) ==
    \/ menu[i].order_count > menu[j].order_count
    \/ /\ menu[i].order_count = menu[j].order_count
       /\ IF tie = "asc" THEN i < j ELSE i > j

\* The least ordered items first.
OrderByCountAsc(items, tie) ==
    LET RECURSIVE Sorted(_)
        Sorted(rest) ==
            IF rest = {} THEN <<>>
            ELSE LET first == CHOOSE i \in rest : \A j \in rest \ {i} : Before(j, i, tie)
                 IN  <<first>> \o Sorted(rest \ {first})
    IN  Sorted(items)

\* order_by(MenuItem.order_count.desc())
OrderByCountDesc(items, tie) ==
    LET RECURSIVE Sorted(_)
        Sorted(rest) ==
            IF rest = {} THEN <<>>
            ELSE LET first == CHOOSE i \in rest : \A j \in rest \ {i} : Before(i, j, tie)
                 IN  <<first>> \o Sorted(rest \ {first})
    IN  Sorted(items)

\* limit(n).all() and [:n]
Limit(rows, n) == SubSeq(rows, 1, IF Len(rows) < n THEN Len(rows) ELSE n)

\* A loop that appends every item, seen or not.
DedupNothing(rows) == rows

\* The loop over filtered_popular + backfill: an item is appended the first time only
Dedup(rows) ==
    LET RECURSIVE Combined(_, _)
        Combined(rest, seen) ==
            IF rest = <<>> THEN <<>>
            ELSE IF Head(rest) \in seen THEN Combined(Tail(rest), seen)
            ELSE <<Head(rest)>> \o Combined(Tail(rest), seen \cup {Head(rest)})
    IN  Combined(rows, {})

\* get_customer_recommendations(customer_id): the ids of the items returned
get_customer_recommendations(customer_id, tie1, tie2) ==
    LET filtered_popular ==
            Limit(OrderByCountDesc(PrimaryCandidates(customer_id), tie1), RecommendationLimit)
        backfill ==
            IF Len(filtered_popular) < RecommendationLimit
            THEN Limit(OrderByCountDesc(BackfillCandidates(customer_id), tie2),
                       RecommendationLimit - Len(filtered_popular))
            ELSE <<>>
        combined == Dedup(filtered_popular \o backfill)
    IN  Limit(combined, RecommendationLimit)

RecommendationsError == "Error getting recommendations"

\* dashboard: the customer's dashboard renders the recommendations; when a query raises,
\* get_customer_recommendations logs the error and returns [].
dashboard(tie1, tie2, dbfail) ==
    /\ Counted
    /\ IF session.user_id = Anonymous
       THEN /\ resp' = Failure("dashboard", "Please log in to access this page.")
            /\ UNCHANGED recommendations
       ELSE IF ~is_customer(session.user_id)
       THEN /\ resp' = Failure("dashboard", "Access denied. Customer access required.")
            /\ UNCHANGED recommendations
       ELSE /\ resp' = Response("dashboard", TRUE, IF dbfail THEN RecommendationsError ELSE "",
                                session.user_id, NoQuantity, NoCode, <<>>)
            /\ recommendations' =
                    IF dbfail THEN <<>>
                    ELSE get_customer_recommendations(session.user_id, tie1, tie2)
    /\ UNCHANGED <<inflight, app, session, now, menu, cart, orders, order_items, preferences>>

\* The catalog of the recommendation model.
RecItemIds == 1..MaxItems

\* The items of Italian cuisine (the others are Indian), those that are vegan,
\* vegetarian, gluten free, and those not available.
ItalianSets == {1..k : k \in 0..MaxItems}
VeganSets == {{}, {i \in RecItemIds : i <= 5}, {i \in RecItemIds : i % 2 = 0}, RecItemIds}
VegetarianSets == {RecItemIds, {i \in RecItemIds : i % 3 # 0}}
GlutenFreeSets == {RecItemIds, {i \in RecItemIds : i > 2}}
UnavailableSets == {{}, {2, MaxItems}}

\* order_count of the items: falling with the id, rising with it, or with ties.
OrderCounts ==
    {[i \in RecItemIds |-> MaxItems - i], [i \in RecItemIds |-> i], [i \in RecItemIds |-> i % 3]}

\* The customer's favorite cuisines and dietary restrictions.
FavoriteSets == {{}, {"Italian"}, {"Italian", "Thai"}}
DietarySets == SUBSET {"vegan", "vegetarian", "gluten_free"}

\* The rows of user_preferences: the customer's, and one of another customer.
PreferenceRows(customer_id, favorites, dietary) ==
    LET ids == [v \in {"Italian", "Thai", "vegan", "vegetarian", "gluten_free"} |->
                  CASE v = "Italian" -> 1 [] v = "Thai" -> 2 [] v = "vegan" -> 3
                    [] v = "vegetarian" -> 4 [] v = "gluten_free" -> 5]
    IN  {[id |-> ids[v], user_id |-> customer_id,
          preference_type |-> "favorite_cuisine", preference_value |-> v] : v \in favorites}
        \cup {[id |-> ids[v], user_id |-> customer_id,
               preference_type |-> "dietary_restriction", preference_value |-> v]
                  : v \in dietary}
        \cup {[id |-> 6, user_id |-> 11,
               preference_type |-> "dietary_restriction", preference_value |-> "vegan"]}

\* A customer has logged in; the catalog and the preferences are drawn from the sets
\* above, and one request is left.
InitRec ==
    /\ app = "blueprints"
    /\ session = [user_id |-> 1, coupon_code |-> <<>>]
    /\ now = 0
    /\ \E italian \in ItalianSets, vegan \in VeganSets, vegetarian \in VegetarianSets,
          gluten_free \in GlutenFreeSets, unavailable \in UnavailableSets,
          counts \in OrderCounts :
            menu = [i \in RecItemIds |->
                      [price |-> 100000,
                       is_available |-> i \notin unavailable,
                       order_count |-> counts[i],
                       cuisine_type |-> IF i \in italian THEN "Italian" ELSE "Indian",
                       is_vegan |-> i \in vegan,
                       is_vegetarian |-> i \in vegetarian,
                       is_gluten_free |-> i \in gluten_free]]
    /\ cart = {}
    /\ orders = {}
    /\ order_items = {}
    /\ resp = NoResponse
    /\ requests = MaxRequests - 1
    /\ \E favorites \in FavoriteSets, dietary \in DietarySets :
            preferences = PreferenceRows(1, favorites, dietary)
    /\ recommendations = <<>>
    /\ inflight = [t \in Threads |-> Idle]

NextRec == \E tie1 \in {"asc", "desc"}, tie2 \in {"asc", "desc"}, f \in BOOLEAN :
                dashboard(tie1, tie2, f)
SpecRec == InitRec /\ [][NextRec]_vars

\* ------------------------------------------------------------------ properties

\* The step handled a request (the clock's tick does not).
Handled == requests' # requests

\* The cart lines of a customer.
LinesOf(rows, customer) == {c \in rows : c.customer_id = customer}

PlaceOrderError == "An error occurred while placing order"

\* C1: when a place_order request ends in a persistence failure, the orders and order
\* lines are those of before the request, every cart line is still there with its
\* quantity, and every menu item's order_count is what it was.
C1_FailedCheckoutChangesNothing ==
    [][(Handled /\ resp'.op = "place_order" /\ resp'.message = PlaceOrderError)
          => /\ ~resp'.success
             /\ orders' = orders
             /\ order_items' = order_items
             /\ cart' = cart
             /\ \A i \in ItemIds : menu'[i].order_count = menu[i].order_count]_vars

\* A checkout over two restaurants' lines failed after its first order had been
\* flushed: no order exists and the cart still holds both lines.
C1_Witness ==
    /\ resp.op = "place_order"
    /\ resp.message = PlaceOrderError
    /\ resp.id >= 2
    /\ Len(resp.numbers) = 2
    /\ orders = {}
    /\ order_items = {}
    /\ Cardinality(LinesOf(cart, session.user_id)) = 2

\* The sum of quantity x frozen unit price over the lines of an order.
LinesTotal(o) ==
    SumSeq([k \in 1..Len(RowSeq({x \in order_items : x.order_id = o.id})) |->
        LET x == RowSeq({y \in order_items : y.order_id = o.id})[k]
        IN  x.quantity * x.price])

\* C2: every persisted order's total_amount is the sum over its lines of quantity x
\* frozen unit price, rounded to two decimals.
C2_TotalIsRoundedLineSum ==
    \A o \in orders : o.total_amount = round2(LinesTotal(o), 1)

\* The bag of (menu item, quantity) pairs of a set of rows agrees with another's.
SameLines(rows, others) ==
    \A x \in rows \cup others :
        Cardinality({y \in rows : y.menu_item_id = x.menu_item_id /\ y.quantity = x.quantity})
            = Cardinality({y \in others : y.menu_item_id = x.menu_item_id
                                             /\ y.quantity = x.quantity})

\* C3: a successful place_order over a cart whose lines belong to k restaurants adds
\* exactly k orders of that customer, one per restaurant, each with one order line per
\* cart line of its own restaurant (same item, same quantity) and no other line.
C3_OneOrderPerRestaurant ==
    [][(Handled /\ resp'.op = "place_order" /\ resp'.success)
          => LET customer == session.user_id
                 lines == LinesOf(cart, customer)
                 restaurants == {restaurant_id[c.menu_item_id] : c \in lines}
                 created == orders' \ orders
                 created_items == order_items' \ order_items
             IN  /\ orders \subseteq orders'
                 /\ order_items \subseteq order_items'
                 /\ lines # {}
                 /\ Cardinality(created) = Cardinality(restaurants)
                 /\ {o.restaurant_id : o \in created} = restaurants
                 /\ \A o \in created :
                      /\ o.customer_id = customer
                      /\ SameLines({x \in created_items : x.order_id = o.id},
                                   {c \in lines : restaurant_id[c.menu_item_id] = o.restaurant_id})
                 /\ \A x \in created_items : \E o \in created : x.order_id = o.id]_vars

\* One checkout has just created two orders, one for each restaurant.
C3_Witness ==
    /\ resp.op = "place_order"
    /\ resp.success
    /\ Len(resp.numbers) = 2
    /\ Cardinality(orders) = 2
    /\ {o.restaurant_id : o \in orders} = RestaurantIds
    /\ \A o \in orders : \E x \in order_items :
            x.order_id = o.id /\ restaurant_id[x.menu_item_id] = o.restaurant_id

\* C4: right after a successful place_order the customer has no cart line, the
\* session's coupon is empty and the cart's totals report no discount.
C4_CartAndCouponCleared ==
    (resp.op = "place_order" /\ resp.success)
        => /\ LinesOf(cart, session.user_id) = {}
           /\ session.coupon_code = <<>>
           /\ _get_active_coupon = <<>>
           /\ CartTotals(DB, session.user_id, _get_active_coupon).discount = 0

\* A checkout under an active coupon has just succeeded: one of its lines is frozen
\* below the listed price.
C4_Witness ==
    /\ resp.op = "place_order"
    /\ resp.success
    /\ \E o \in orders, x \in order_items :
            /\ x.order_id = o.id
            /\ \E k \in 1..Len(resp.numbers) : resp.numbers[k] = o.order_number
            /\ x.price < menu[x.menu_item_id].price

\* C5: an order line is created with the discounted unit price of its item under the
\* coupon active at the checkout, and no request changes or removes an existing order
\* line afterwards.
C5_LinePriceFrozen ==
    [][/\ \A x \in order_items : x \in order_items'
       /\ \A x \in order_items' \ order_items :
            /\ resp'.op = "place_order"
            /\ x.price = _discounted_unit_price(menu[x.menu_item_id].price, x.menu_item_id,
                                                strip(upper(session.coupon_code)))]_vars

\* A line was frozen at half the pizza's listed price, and another coupon is active now.
C5_Witness ==
    /\ app = "blueprints"
    /\ \E x \in order_items :
            /\ x.menu_item_id = 1
            /\ 2 * x.price = InitialPrice[1]
            /\ menu[1].price = InitialPrice[1]
    /\ session.coupon_code = BIRYANI30

\* C6: place_order of a customer without cart lines fails with 'Cart is empty' and
\* changes nothing: no order, no order line, no order_count, and the coupon stays.
C6_EmptyCartRejected ==
    [][(Handled /\ resp'.op = "place_order" /\ is_customer(session.user_id)
            /\ LinesOf(cart, session.user_id) = {})
          => /\ ~resp'.success
             /\ resp'.message = "Cart is empty"
             /\ UNCHANGED <<orders, order_items, menu, cart, session>>]_vars

\* An empty cart was refused while a coupon is active.
C6_Witness ==
    /\ resp.op = "place_order"
    /\ resp.message = "Cart is empty"
    /\ session.coupon_code = PIZZA50

\* C7: the order numbers place_order generates are unique: a checkout generates no
\* number twice, and none that an order of an earlier checkout already holds.
C7_GeneratedNumbersUnique ==
    [][(Handled /\ resp'.op = "place_order")
          => LET numbers == resp'.numbers
             IN  /\ \A k \in 1..Len(numbers) :
                        numbers[k] \notin {o.order_number : o \in orders}
                 /\ \A j, k \in 1..Len(numbers) : j # k => numbers[j] # numbers[k]]_vars

\* C8: every cart line has a quantity of at least 1.
C8_QuantityAtLeastOne == \A c \in cart : c.quantity >= 1

\* C9: update_cart_quantity with a quantity below 1, or without one, fails and leaves
\* the cart as it was: the line stays, with its quantity.
C9_InvalidQuantityRejected ==
    [][(Handled /\ resp'.op = "update_cart_quantity"
            /\ (resp'.quantity = NoQuantity \/ resp'.quantity[1] < 1))
          => /\ ~resp'.success
             /\ cart' = cart]_vars

\* Quantity 0 was refused for a line of the customer, which is still in the cart.
C9_Witness ==
    /\ resp.op = "update_cart_quantity"
    /\ resp.message = "Invalid data"
    /\ resp.quantity = <<0>>
    /\ \E c \in cart : c.id = resp.id /\ c.customer_id = session.user_id /\ c.quantity >= 1

\* C10 as stated: a non-empty code that is not a registry code fails and leaves the
\* coupon; the empty code empties it; a registry code becomes the coupon.
C10_AsStated ==
    [][(Handled /\ resp'.op = "apply_coupon" /\ is_customer(session.user_id))
          => LET raw == resp'.code
             IN  /\ (raw # <<>> /\ raw # NoCode /\ raw \notin CouponCodes)
                        => ~resp'.success /\ session' = session
                 /\ (raw = <<>> \/ raw = NoCode) => session'.coupon_code = <<>>
                 /\ raw \in CouponCodes => session'.coupon_code = raw]_vars

\* C10 amended: the submitted code counts upper-cased and stripped of surrounding
\* whitespace, a missing code as empty.  If that is non-empty and no registry code the
\* request fails and the coupon stays; if it is empty the coupon becomes empty; if it
\* is a registry code it becomes the coupon.
C10_NormalisedCode ==
    [][(Handled /\ resp'.op = "apply_coupon" /\ is_customer(session.user_id))
          => LET code == NormalizeCode(resp'.code)
             IN  /\ (code # <<>> /\ code \notin CouponCodes)
                        => ~resp'.success /\ session' = session
                 /\ code = <<>> => resp'.success /\ session'.coupon_code = <<>>
                 /\ code \in CouponCodes => resp'.success /\ session'.coupon_code = code
                 /\ session'.user_id = session.user_id]_vars

\* The code " BIRYANI30" was accepted and BIRYANI30 is the coupon now.
C10_Witness ==
    /\ resp.op = "apply_coupon"
    /\ resp.success
    /\ resp.code = <<" ","B","I","R","Y","A","N","I","3","0">>
    /\ session.coupon_code = BIRYANI30

\* ------------------------------------------------------------------ pricing properties

\* The coupon values the pricing functions are given in a state: the session's coupon,
\* with which the cart endpoints price, and the code last submitted as the client wrote
\* it (empty, blank, in lower case, unknown).
CouponValues == {session.coupon_code, resp.code}

\* The items the pricing functions are given in a state: those of the cart's lines.
PricedItems == {c.menu_item_id : c \in cart}

\* r mills is a whole number of cents nearest to n/d mills.
NearestCent(r, n, d) ==
    /\ r % 10 = 0
    /\ (IF d * r >= n THEN d * r - n ELSE n - d * r) <= 5 * d

\* The totals the last cart response carries: those of the state it left.
ReportedTotals == CartTotals(DB, session.user_id, _get_active_coupon)

\* The totals the response of a step carries: those of the state the step leaves.
ReportedTotalsAfter ==
    CartTotals([menu |-> menu', cart |-> cart', orders |-> orders',
                order_items |-> order_items'],
               session'.user_id, strip(upper(session'.coupon_code)))

\* The last response is one that reports the cart's totals.
TotalsReported ==
    /\ resp.op \in {"cart", "apply_coupon", "update_cart_quantity", "remove_from_cart"}
    /\ resp.success

\* The sum of F over the rows of a table.
RowSum(rows, F(_)) == SumSeq([k \in 1..Len(RowSeq(rows)) |-> F(RowSeq(rows)[k])])

\* C11: for every menu item and coupon code, the discounted unit price is the listed
\* price when the code is empty, unknown or the item is not eligible, and the listed
\* price x (1 - fraction) rounded to two decimals when the item is eligible; 169.00
\* under PIZZA50 gives 84.50.
C11_DiscountedUnitPrice ==
    /\ \A i \in PricedItems, coupon \in CouponValues :
          LET price == menu[i].price
              unit == _discounted_unit_price(price, i, coupon)
          IN  IF coupon # <<>> /\ coupon \in CouponCodes
                    /\ _is_item_eligible_for_coupon(i, coupon)
              THEN NearestCent(unit, price * (100 - _COUPON_MAP[coupon].pct), 100)
              ELSE unit = price
    /\ _discounted_unit_price(169000, 1, PIZZA50) = 84500

\* The cart shows one maki under SUSHI25: 99.99 x 0.75 = 74.9925, charged 74.99.
C11_Witness ==
    /\ TotalsReported
    /\ session.coupon_code = SUSHI25
    /\ \E c \in cart : c.menu_item_id = 5 /\ c.quantity = 1 /\ cart = {c}
    /\ ReportedTotals.total = 74990

\* Keyword k matches text at offset off, letter case apart.
MatchesAt(text, k, off) ==
    \A j \in 1..Len(k) : UpperChar(text[off + j]) = UpperChar(k[j])

\* C12: an item is eligible for a coupon code exactly when the code is a registry code
\* and one of its keywords occurs, letter case apart, as a substring of the item's
\* category, a space and its name.
C12_EligibleIffKeyword ==
    \A i \in PricedItems, coupon \in CouponValues :
        LET text == category[i] \o <<" ">> \o name[i]
        IN  _is_item_eligible_for_coupon(i, coupon)
                <=> IF coupon \in DOMAIN _COUPON_MAP
                    THEN \E k \in _COUPON_MAP[coupon].keywords :
                            \E off \in 0..(Len(text) - Len(k)) : MatchesAt(text, k, off)
                    ELSE FALSE

\* HEALTHY40 discounts the quinoa bowl, whose name ends in one of its two keywords.
C12_Witness ==
    /\ TotalsReported
    /\ session.coupon_code = HEALTHY40
    /\ \E c \in cart : c.menu_item_id = 4 /\ c.quantity = 1 /\ cart = {c}
    /\ ReportedTotals.discount = 100000

\* C13: the totals the cart view, apply_coupon, update_cart_quantity and
\* remove_from_cart report satisfy discount = round(subtotal - total, 2) and
\* total <= subtotal: the discount is never negative.
C13_DiscountNeverNegative ==
    TotalsReported
        => /\ ReportedTotals.discount = round2(ReportedTotals.subtotal - ReportedTotals.total, 1)
           /\ ReportedTotals.total <= ReportedTotals.subtotal
           /\ ReportedTotals.discount >= 0

\* The customer's cart lines eligible for the active coupon.
EligibleLines ==
    {c \in LinesOf(cart, session.user_id) :
        _is_item_eligible_for_coupon(c.menu_item_id, _get_active_coupon)}

\* The cart mixes lines eligible and not eligible for the active coupon.
MixedCart ==
    /\ EligibleLines # {}
    /\ EligibleLines # LinesOf(cart, session.user_id)

\* The discounted unit price of an eligible line.
EligibleUnit(c) ==
    round2(menu[c.menu_item_id].price * (100 - _COUPON_MAP[_get_active_coupon].pct), 100)

\* C14 as stated: in a mixed cart the reported discount is the sum over the eligible
\* lines of quantity x (listed price - discounted unit price).
C14_AsStated ==
    (TotalsReported /\ MixedCart)
        => ReportedTotals.discount
              = RowSum(EligibleLines,
                       LAMBDA c : c.quantity * (menu[c.menu_item_id].price - EligibleUnit(c)))

\* C14 amended: the discount is applied line by line.  The reported total is the sum of
\* quantity x discounted unit price over the eligible lines and of quantity x listed
\* price over the others, and the reported discount is the sum over the eligible lines
\* of quantity x (listed price - discounted unit price), rounded to two decimals.
C14_DiscountPerLine ==
    TotalsReported
        => /\ ReportedTotals.total
                = RowSum(EligibleLines, LAMBDA c : c.quantity * EligibleUnit(c))
                  + RowSum(LinesOf(cart, session.user_id) \ EligibleLines,
                           LAMBDA c : c.quantity * menu[c.menu_item_id].price)
           /\ ReportedTotals.discount
                = round2(RowSum(EligibleLines,
                           LAMBDA c : c.quantity
                                        * (menu[c.menu_item_id].price - EligibleUnit(c))), 1)

\* A pizza at 10.004 and a lassi under PIZZA50: the pizza is charged 5.00, the lassi in
\* full, and the discount of 5.004 is reported as 5.00.
C14_Witness ==
    /\ TotalsReported
    /\ MixedCart
    /\ session.coupon_code = PIZZA50
    /\ \E c \in cart : c.menu_item_id = 1 /\ c.quantity = 1
    /\ \E c \in cart : c.menu_item_id = 2 /\ c.quantity = 1
    /\ menu[1].price = OddPrice
    /\ ReportedTotals = [subtotal |-> 50004, discount |-> 5000, total |-> 45000]

\* C15: applying the known code just applied once more leaves the active coupon and
\* reports the same subtotal, discount and total; applying the empty code reports
\* discount 0 and a total equal to the subtotal.
C15_ApplyIdempotent ==
    [][/\ (/\ Handled /\ resp'.op = "apply_coupon"
           /\ resp.op = "apply_coupon" /\ resp.success
           /\ resp'.code = resp.code
           /\ session.coupon_code \in CouponCodes)
          => /\ resp'.success
             /\ session' = session
             /\ ReportedTotalsAfter = ReportedTotals
       /\ (/\ Handled /\ resp'.op = "apply_coupon"
           /\ is_customer(session.user_id)
           /\ resp'.code \in {<<>>, NoCode})
          => LET totals == ReportedTotalsAfter
             IN  /\ resp'.success
                 /\ totals.discount = 0
                 /\ totals.total = totals.subtotal]_vars

\* BIRYANI30 is applied to a cart with a biryani in it, the discount showing, after the
\* biryani was added and the code was applied a first time.
C15_Witness ==
    /\ resp.op = "apply_coupon"
    /\ resp.success
    /\ resp.code = BIRYANI30 \/ resp.code = <<" ","B","I","R","Y","A","N","I","3","0">>
    /\ session.coupon_code = BIRYANI30
    /\ requests >= 3
    /\ \E c \in cart : c.menu_item_id = 3 /\ c.quantity = 1 /\ cart = {c}
    /\ ReportedTotals.discount = 66000

\* ------------------------------------------------------------------ recommendation properties

\* The dashboard has just rendered recommendations for the customer.
Rendered == resp.op = "dashboard" /\ resp.success

\* No query raised while the recommendations were computed.
Computed == Rendered /\ resp.message # RecommendationsError

\* The customer has the dietary restriction v.
Restricted(v) ==
    \E p \in preferences :
        /\ p.user_id = session.user_id
        /\ p.preference_type = "dietary_restriction"
        /\ p.preference_value = v

\* The customer's favorite cuisines.
Favorites ==
    {p.preference_value :
        p \in {x \in preferences : x.user_id = session.user_id
                                     /\ x.preference_type = "favorite_cuisine"}}

\* Item i is within every dietary restriction of the customer.
WithinRestrictions(i) ==
    /\ (Restricted("vegan") => menu[i].is_vegan)
    /\ (Restricted("vegetarian") => menu[i].is_vegetarian)
    /\ (Restricted("gluten_free") => menu[i].is_gluten_free)

\* The available items within the customer's dietary restrictions.
Qualifying == {i \in DOMAIN menu : menu[i].is_available /\ WithinRestrictions(i)}

\* The qualifying items the favorite-cuisine pass selects from.
QualifyingFavorites ==
    {i \in Qualifying : Favorites = {} \/ menu[i].cuisine_type \in Favorites}

\* The items recommended, and whether none is there twice.
Recommended == {recommendations[k] : k \in 1..Len(recommendations)}
NoneTwice == Cardinality(Recommended) = Len(recommendations)

\* C16: at most 8 items are recommended, each of them available and within all of the
\* customer's dietary restrictions (vegetarian, vegan, gluten_free), whichever pass
\* selected it.
C16_AvailableWithinRestrictions ==
    Rendered
        => /\ Len(recommendations) <= 8
           /\ \A k \in 1..Len(recommendations) :
                /\ recommendations[k] \in DOMAIN menu
                /\ menu[recommendations[k]].is_available
                /\ WithinRestrictions(recommendations[k])

\* A vegetarian, gluten-free customer with a favorite cuisine is recommended an item of
\* another cuisine, while items outside the restrictions and unavailable items exist.
C16_Witness ==
    /\ Computed
    /\ Restricted("vegetarian")
    /\ Restricted("gluten_free")
    /\ Favorites # {}
    /\ \E k \in 1..Len(recommendations) : menu[recommendations[k]].cuisine_type \notin Favorites
    /\ \E i \in DOMAIN menu : menu[i].is_available /\ ~WithinRestrictions(i)
    /\ \E i \in DOMAIN menu : ~menu[i].is_available

\* C17: when the favorite-cuisine pass yields fewer than 8 items and at least 8
\* available items are within the dietary restrictions, exactly 8 items are recommended.
C17_BackfillReachesEight ==
    (/\ Computed
     /\ Cardinality(QualifyingFavorites) < 8
     /\ Cardinality(Qualifying) >= 8)
        => Len(recommendations) = 8

\* C18: when fewer than 8 available items are within the dietary restrictions, exactly
\* those items are recommended, each once.
C18_AllQualifyingReturned ==
    (Computed /\ Cardinality(Qualifying) < 8)
        => /\ Recommended = Qualifying
           /\ NoneTwice

\* C19: for a customer without preferences the recommendations are available items in
\* non-increasing order_count, at most 8 and as many as 8 when that many are available,
\* and no available item left out has a higher order_count than an item recommended.
C19_PopularityRanking ==
    (Rendered /\ \A p \in preferences : p.user_id # session.user_id)
        => /\ Len(recommendations) <= 8
           /\ NoneTwice
           /\ \A k \in 1..Len(recommendations) : menu[recommendations[k]].is_available
           /\ \A j, k \in 1..Len(recommendations) :
                j < k => menu[recommendations[j]].order_count
                            >= menu[recommendations[k]].order_count
           /\ \A i \in DOMAIN menu, k \in 1..Len(recommendations) :
                (menu[i].is_available /\ i \notin Recommended)
                    => menu[i].order_count <= menu[recommendations[k]].order_count
           /\ Computed =>
                \/ Len(recommendations) = 8
                \/ Recommended = {i \in DOMAIN menu : menu[i].is_available}

\* A customer without preferences (another customer has one) is recommended the 8 most
\* ordered of 9 available items.
C19_Witness ==
    /\ Computed
    /\ preferences # {}
    /\ \A p \in preferences : p.user_id # session.user_id
    /\ Len(recommendations) = 8
    /\ \A i \in DOMAIN menu : menu[i].is_available
    /\ menu[recommendations[1]].order_count > menu[recommendations[8]].order_count

\* The recommended item at position k was selected by the favorite-cuisine pass.
FromPrimary(k) ==
    Favorites = {} \/ menu[recommendations[k]].cuisine_type \in Favorites

\* C20: no item is recommended twice; the items the favorite-cuisine pass selected come
\* before the items only the backfill selected, and each of the two groups is in
\* non-increasing order_count.
C20_PrimaryThenBackfill ==
    Rendered
        => /\ NoneTwice
           /\ \A j, k \in 1..Len(recommendations) :
                j < k =>
                    /\ ~(~FromPrimary(j) /\ FromPrimary(k))
                    /\ (FromPrimary(j) <=> FromPrimary(k))
                          => menu[recommendations[j]].order_count
                                >= menu[recommendations[k]].order_count

\* Both passes contributed, and an item of the backfill is more ordered than an item of
\* the favorite cuisine that precedes it.
C20_Witness ==
    /\ Computed
    /\ Favorites # {}
    /\ \E j, k \in 1..Len(recommendations) :
            /\ j < k
            /\ FromPrimary(j)
            /\ ~FromPrimary(k)
            /\ menu[recommendations[k]].order_count > menu[recommendations[j]].order_count

\* ------------------------------------------------------------------ properties of the orders

\* C21: no step lowers the order_count of a menu item.
C21_OrderCountNeverDecreases ==
    [][\A i \in DOMAIN menu : menu'[i].order_count >= menu[i].order_count]_vars

\* The order on the orders table the request named, when the session's user owns its
\* restaurant.
OwnedOrder(order_id) ==
    {o \in orders : o.id = order_id /\ owner_id[o.restaurant_id] = session.user_id}

\* C24: update_order_status succeeds exactly when an owner names an order of their own
\* restaurant and a status, and the database works; then that order's status becomes
\* the requested value and nothing else changes; in every other case no order changes.
C24_StatusChangedByOwnerOnly ==
    [][(Handled /\ resp'.op = "update_order_status")
        => IF resp'.success
           THEN /\ is_restaurant_owner(session.user_id)
                /\ resp'.status # ""
                /\ \E o \in OwnedOrder(resp'.id) :
                       orders' = (orders \ {o}) \cup {[o EXCEPT !.status = resp'.status]}
           ELSE /\ orders' = orders
                /\ ("status" \in DOMAIN resp' /\ is_restaurant_owner(session.user_id))
                     => (resp'.status = "" \/ OwnedOrder(resp'.id) = {})]_vars

\* An owner has just set the status of an order of their restaurant.
C24_Witness ==
    /\ resp.op = "update_order_status"
    /\ resp.success
    /\ is_restaurant_owner(session.user_id)
    /\ \E o \in orders :
            /\ o.id = resp.id
            /\ owner_id[o.restaurant_id] = session.user_id
            /\ o.status = "confirmed"

\* C25: a place_order that fails leaves the session's coupon as it was.
C25_FailedCheckoutKeepsCoupon ==
    [][(Handled /\ resp'.op = "place_order" /\ resp'.message = PlaceOrderError)
        => session'.coupon_code = session.coupon_code]_vars

\* The values the comment on Order.status lists.
OrderStatuses == {"pending", "confirmed", "preparing", "ready", "delivered", "cancelled"}

\* C30: the status of every order is one of the six listed values.
C30_StatusInRange == \A o \in orders : o.status \in OrderStatuses

\* ------------------------------------------------------------------ preferences

\* The texts of the user_preferences columns, as the rows above hold them.
PreferenceWords ==
    {"favorite_cuisine", "favorite_restaurant", "dietary_restriction", "hobby",
     "vegan", "Italian"}

\* The characters of a text.
Chars(w) ==
    CASE w = "favorite_cuisine" ->
            <<"f","a","v","o","r","i","t","e","_","c","u","i","s","i","n","e">>
      [] w = "favorite_restaurant" ->
            <<"f","a","v","o","r","i","t","e","_","r","e","s","t","a","u","r","a","n","t">>
      [] w = "dietary_restriction" ->
            <<"d","i","e","t","a","r","y","_","r","e","s","t","r","i","c","t","i","o","n">>
      [] w = "hobby" -> <<"h","o","b","b","y">>
      [] w = "vegan" -> <<"v","e","g","a","n">>
      [] w = "Italian" -> <<"I","t","a","l","i","a","n">>

\* The text that a sequence of characters spells.
Word(s) ==
    IF \E w \in PreferenceWords : Chars(w) = s
    THEN CHOOSE w \in PreferenceWords : Chars(w) = s
    ELSE ""

\* A text sent with a blank before and after it.
Padded(w) == <<" ">> \o Chars(w) \o <<" ">>

\* The values a client sends as preference_type and preference_value: the key left
\* out, an empty text, a text, a text between blanks.
TypeInputs ==
    {NoCode, Chars("dietary_restriction"), Padded("dietary_restriction"),
     Chars("favorite_cuisine"), Chars("hobby")}
ValueInputs == {NoCode, <<>>, Chars("vegan"), Padded("vegan"), Chars("Italian")}
RequestPreferenceIds == 0..2

\* (data.get(key) or '').strip()
PreferenceText(raw) == IF raw = NoCode THEN <<>> ELSE strip(raw)

\* allowed_types
allowed_types ==
    {Chars(w) : w \in {"favorite_cuisine", "favorite_restaurant", "dietary_restriction"}}

\* A lookup that never finds a row.
ExistingPreferenceNone(rows, user, pref_type, pref_value) == {}

\* UserPreference.query.filter_by(user_id=..., preference_type=..., preference_value=...)
ExistingPreference(rows, user, pref_type, pref_value) ==
    {p \in rows : /\ p.user_id = user
                  /\ p.preference_type = Word(pref_type)
                  /\ p.preference_value = Word(pref_value)}

add_preference(raw_type, raw_value, dbfail) ==
    LET op == "add_preference"
        pref_type == PreferenceText(raw_type)
        pref_value == PreferenceText(raw_value)
        \* the response, with the texts the request sent
        R(ok, msg) == Response(op, ok, msg, 0, NoQuantity, NoCode, <<>>)
                          @@ [preference_type |-> raw_type, preference_value |-> raw_value]
        existing == ExistingPreference(preferences, session.user_id, pref_type, pref_value)
        row == [id |-> NextId(preferences), user_id |-> session.user_id,
                preference_type |-> Word(pref_type), preference_value |-> Word(pref_value)]
    IN
    /\ Counted
    /\ UNCHANGED <<inflight, recommendations, app, session, now, menu, cart, orders, order_items>>
    /\ IF Denied(TRUE) # ""
       THEN resp' = Failure(op, Denied(TRUE)) /\ UNCHANGED preferences
       ELSE IF pref_type \notin allowed_types \/ pref_value = <<>>
       THEN resp' = R(FALSE, "Invalid preference data") /\ UNCHANGED preferences
       ELSE IF existing # {}
       THEN resp' = R(TRUE, "Preference already exists") /\ UNCHANGED preferences
       ELSE IF dbfail
       THEN resp' = Failure(op, "An error occurred") /\ UNCHANGED preferences
       ELSE /\ resp' = R(TRUE, "Preference added successfully")
            /\ preferences' = preferences \cup {row}

remove_preference(pref_id, dbfail) ==
    LET op == "remove_preference"
        R(ok, msg) == Response(op, ok, msg, pref_id, NoQuantity, NoCode, <<>>)
        pref == {p \in preferences : p.id = pref_id /\ p.user_id = session.user_id}
    IN
    /\ Counted
    /\ UNCHANGED <<inflight, recommendations, app, session, now, menu, cart, orders, order_items>>
    /\ IF Denied(TRUE) # ""
       THEN resp' = Failure(op, Denied(TRUE)) /\ UNCHANGED preferences
       ELSE IF pref_id = 0
       THEN resp' = R(FALSE, "Invalid preference id") /\ UNCHANGED preferences
       ELSE IF pref = {}
       THEN resp' = R(FALSE, "Preference not found") /\ UNCHANGED preferences
       ELSE IF dbfail
       THEN resp' = Failure(op, "An error occurred") /\ UNCHANGED preferences
       ELSE /\ resp' = R(TRUE, "Preference removed successfully")
            /\ preferences' = preferences \ pref

\* The customers' preferences: users log in and out, add and remove preferences.
InitPrefs == InitOf("blueprints")
NextPrefs ==
    \/ \E u \in LoginUsers : login(u)
    \/ logout
    \/ \E t \in TypeInputs, v \in ValueInputs, f \in BOOLEAN : add_preference(t, v, f)
    \/ \E p \in RequestPreferenceIds, f \in BOOLEAN : remove_preference(p, f)
SpecPrefs == InitPrefs /\ [][NextPrefs]_vars

\* The rows of a user with the type and the value a request sent.
Matching(rows, user, raw_type, raw_value) ==
    {p \in rows : /\ p.user_id = user
                  /\ Chars(p.preference_type) = PreferenceText(raw_type)
                  /\ Chars(p.preference_value) = PreferenceText(raw_value)}

\* C22: an add_preference that succeeds leaves exactly one row of the user with the
\* request's type and value; when such a row exists already, the call succeeds and
\* inserts nothing; a call that does not succeed changes no row.
C22_AddPreferenceIdempotent ==
    [][(Handled /\ resp'.op = "add_preference")
        => IF "preference_type" \in DOMAIN resp'
           THEN LET m(rows) == Matching(rows, session.user_id,
                                        resp'.preference_type, resp'.preference_value)
                IN  /\ resp'.success => Cardinality(m(preferences')) = 1
                    /\ m(preferences) # {} => (resp'.success /\ preferences' = preferences)
                    /\ ~resp'.success => preferences' = preferences
           ELSE preferences' = preferences]_vars

\* A preference sent between blanks has just been found to exist already.
C22_Witness ==
    /\ resp.op = "add_preference"
    /\ resp.message = "Preference already exists"
    /\ resp.preference_value # strip(resp.preference_value)
    /\ Cardinality(Matching(preferences, session.user_id,
                            resp.preference_type, resp.preference_value)) = 1

\* ------------------------------------------------------------------ a shared browser

\* The two customers have each put the pizza in their cart and the browser they share
\* is logged out; requests counts the requests from here on.
InitSharedBrowser ==
    /\ app = "blueprints"
    /\ session = [user_id |-> Anonymous, coupon_code |-> <<>>]
    /\ now = 0
    /\ menu = [i \in ItemIds |->
                 [price |-> InitialPrice[i], is_available |-> TRUE, order_count |-> 0]]
    /\ cart = {[id |-> 1, customer_id |-> 1, menu_item_id |-> 1, quantity |-> 1],
               [id |-> 2, customer_id |-> 11, menu_item_id |-> 1, quantity |-> 1]}
    /\ orders = {}
    /\ order_items = {}
    /\ resp = NoResponse
    /\ requests = 0
    /\ preferences = {}
    /\ recommendations = <<>>
    /\ inflight = [t \in Threads |-> Idle]

\* Users log in and out of the one browser; customer 1 is the only one who submits
\* coupon codes; customers look at their cart and check out; owners update their items.
NextSharedBrowser ==
    \/ \E u \in LoginUsers : login(u)
    \/ logout
    \/ \E raw \in CodeInputs : session.user_id = 1 /\ apply_coupon(raw)
    \/ cart_view
    \/ \E f \in FailPoints : place_order(f)
    \/ \E i \in UpdateItemIds, data \in UpdateData, f \in BOOLEAN : update_menu_item(i, data, f)
SpecSharedBrowser == InitSharedBrowser /\ [][NextSharedBrowser]_vars

\* C26: every order line a step creates is for an item that was available when the
\* step began.
C26_NoLineForUnavailableItem ==
    [][\A x \in order_items' \ order_items : menu[x.menu_item_id].is_available]_vars

\* C29: while customer 11, who never submits a coupon code, is logged in, no coupon is
\* active and the totals of their cart carry no discount.
C29_CouponStaysWithItsCustomer ==
    session.user_id = 11
        => /\ _get_active_coupon = <<>>
           /\ CartTotals(DB, 11, _get_active_coupon).discount = 0
           /\ CartTotals(DB, 11, _get_active_coupon).total
                = CartTotals(DB, 11, _get_active_coupon).subtotal

\* ------------------------------------------------------------------ concurrent requests

\* The server handles requests on several threads.  Each customer uses a browser of
\* their own, logged in and with no coupon; a request's queries read the committed
\* tables, and its writes are committed together when the handler commits.

\* The items the concurrent requests name.
ConcurrentItemIds == {1, 3}

\* add_to_cart up to its lookup of the customer's line for the item (lines 166-178)
add_to_cart_lookup(t, customer, menu_item_id) ==
    /\ inflight[t] = Idle
    /\ requests < MaxRequests
    /\ menu[menu_item_id].is_available
    /\ inflight' = [inflight EXCEPT ![t] =
            [op |-> "add_to_cart", customer |-> customer, menu_item_id |-> menu_item_id,
             existing |-> {c \in cart : c.customer_id = customer
                                         /\ c.menu_item_id = menu_item_id}]]
    /\ UNCHANGED <<app, session, now, menu, cart, orders, order_items, resp, requests,
                   preferences, recommendations>>

\* add_to_cart from the lookup's result on (lines 179-186): the line found is written
\* with its quantity as read plus one, or a line is inserted; the UPDATE of a line that
\* is gone meanwhile raises.
add_to_cart_commit(t) ==
    LET op == "add_to_cart"
        r == inflight[t]
        R(ok, msg) == Response(op, ok, msg, r.menu_item_id, NoQuantity, NoCode, <<>>)
        e == CHOOSE c \in r.existing : \A o \in r.existing : c.id <= o.id
        after ==
            IF r.existing # {}
            THEN {IF c.id = e.id THEN [c EXCEPT !.quantity = e.quantity + 1] ELSE c : c \in cart}
            ELSE cart \cup {[id |-> NextId(cart), customer_id |-> r.customer,
                             menu_item_id |-> r.menu_item_id, quantity |-> 1]}
    IN
    /\ r.op = op
    /\ Counted
    /\ inflight' = [inflight EXCEPT ![t] = Idle]
    /\ UNCHANGED <<app, session, now, menu, orders, order_items, preferences, recommendations>>
    /\ IF r.existing # {} /\ e.id \notin {c.id : c \in cart}
       THEN resp' = Failure(op, "An error occurred") /\ UNCHANGED cart
       ELSE /\ \A c \in after : c.id <= MaxCartId /\ c.quantity <= MaxQty
            /\ resp' = R(TRUE, "Item added to cart successfully")
            /\ cart' = after

\* place_order up to the grouping of the cart lines (lines 340-351): the customer's
\* cart lines and the menu items of those lines are loaded.
place_order_read(t, customer) ==
    LET lines == {c \in cart : c.customer_id = customer}
    IN
    /\ inflight[t] = Idle
    /\ requests < MaxRequests
    /\ UNCHANGED <<app, session, now, menu, cart, orders, order_items, preferences,
                   recommendations>>
    /\ IF lines = {}
       THEN /\ Counted
            /\ resp' = Failure("place_order", "Cart is empty")
            /\ UNCHANGED inflight
       ELSE /\ inflight' = [inflight EXCEPT ![t] =
                    [op |-> "place_order", customer |-> customer, lines |-> lines,
                     menu |-> menu]]
            /\ UNCHANGED <<resp, requests>>

\* place_order from its loop over the restaurants on (lines 352-374): the orders and
\* lines are built from the cart lines as read, order_count is written as read plus the
\* line's quantity, the customer's cart lines are deleted, all is committed; an order
\* number already taken makes the flush raise, and the handler rolls back.
place_order_commit(t) ==
    LET op == "place_order"
        r == inflight[t]
        d == [menu |-> r.menu, cart |-> r.lines, orders |-> orders,
              order_items |-> order_items]
        keys == RestaurantKeys(CartItems(d, r.customer), {})
        run == PlaceOrders(d, r.customer, <<>>, keys, now, "blueprints", 0)
        loaded == {c.menu_item_id : c \in r.lines}
    IN
    /\ r.op = op
    /\ Counted
    /\ Cardinality(orders) + Len(keys) <= MaxOrders
    /\ inflight' = [inflight EXCEPT ![t] = Idle]
    /\ UNCHANGED <<app, session, now, preferences, recommendations>>
    /\ IF ~run.ok
       THEN /\ resp' = Response(op, FALSE, PlaceOrderError, 0, NoQuantity, NoCode, run.numbers)
            /\ UNCHANGED <<menu, cart, orders, order_items>>
       ELSE /\ resp' = Response(op, TRUE, "Order placed successfully!", 0, NoQuantity,
                                NoCode, run.numbers)
            /\ orders' = run.db.orders
            /\ order_items' = run.db.order_items
            /\ menu' = [i \in DOMAIN menu |->
                          IF i \in loaded
                          THEN [menu[i] EXCEPT !.order_count = run.db.menu[i].order_count]
                          ELSE menu[i]]
            /\ cart' = ClearCart(DB, r.customer).cart

InitConcurrent == InitOf("blueprints")
NextConcurrent ==
    \/ Tick
    \/ \E t \in Threads, c \in Customers, i \in ConcurrentItemIds : add_to_cart_lookup(t, c, i)
    \/ \E t \in Threads : add_to_cart_commit(t)
    \/ \E t \in Threads, c \in Customers : place_order_read(t, c)
    \/ \E t \in Threads : place_order_commit(t)
SpecConcurrent == InitConcurrent /\ [][NextConcurrent]_vars

\* The quantities of the order lines created for an item, added up.
OrderedQuantity(i) ==
    LET lines == RowSeq({x \in order_items : x.menu_item_id = i})
    IN  SumSeq([k \in 1..Len(lines) |-> lines[k].quantity])

\* C23: the order_count of every item is its initial value, zero, plus the quantities of
\* all the order lines created for it, when the checkouts were those of different
\* customers.
C23_OrderCountIsOrderedQuantity ==
    (\A o1, o2 \in orders : o1.customer_id = o2.customer_id => o1 = o2)
        => \A i \in DOMAIN menu : menu[i].order_count = OrderedQuantity(i)

\* C27: a customer has at most one cart line per menu item.
C27_OneCartLinePerItem ==
    \A c1, c2 \in cart :
        (c1.customer_id = c2.customer_id /\ c1.menu_item_id = c2.menu_item_id) => c1 = c2

\* C28: a place_order that commits orders does so for cart lines that are still in the
\* cart: lines another place_order has ordered and deleted are not ordered again.
C28_CartOrderedOnce ==
    [][\A t \in Threads :
          (inflight[t].op = "place_order" /\ inflight'[t] = Idle /\ orders' # orders)
              => {c.id : c \in inflight[t].lines} \subseteq {c.id : c \in cart}]_vars

====
